---- MODULE Spec2Model ----
(***************************************************************************)
(* Model of Lib/_android_support.py: TextLogStream (the Line Buffer) over  *)
(* BinaryLogStream (the Record Sink) over the platform log-write callback. *)
(*                                                                         *)
(* Data representation.  A Python str is a run-length encoded sequence of  *)
(* <<code point, count>> pairs, and a Python bytes object is a run-length  *)
(* encoded sequence of <<unit, count>> pairs, where a unit is the byte     *)
(* sequence one character encodes to.  Both are kept in normal form (no    *)
(* empty run, no two adjacent runs of the same item), so that equality of  *)
(* the representations is equality of the strings.  The run lengths keep   *)
(* their real size: MAX_BYTES_PER_WRITE is 4000 as in the source.          *)
(***************************************************************************)
EXTENDS Integers, Sequences, FiniteSets, TLC

\* src/Lib/_android_support.py:12
MAX_BYTES_PER_WRITE == 4000

\* src/Lib/_android_support.py:19
MAX_CHARS_PER_WRITE == MAX_BYTES_PER_WRITE \div 4

(***************************************************************************)
(* Strings and bytes (run-length encoded).                                 *)
(***************************************************************************)

\* Concatenation of two run-length encoded strings, kept in normal form.
Cat(x, y) ==
    IF x = <<>> THEN y
    ELSE IF y = <<>> THEN x
    ELSE IF x[Len(x)][1] = y[1][1]
         THEN SubSeq(x, 1, Len(x) - 1)
              \o << <<y[1][1], x[Len(x)][2] + y[1][2]>> >>
              \o Tail(y)
         ELSE x \o y

\* len(s) of a str: the number of characters.
RECURSIVE StrLen(_)
StrLen(s) == IF s = <<>> THEN 0 ELSE s[1][2] + StrLen(Tail(s))

\* s[:k] of a str (or of a run-length sequence in general).
RECURSIVE Take(_, _)
Take(s, k) ==
    IF s = <<>> \/ k <= 0 THEN <<>>
    ELSE IF s[1][2] <= k THEN <<s[1]>> \o Take(Tail(s), k - s[1][2])
    ELSE << <<s[1][1], k>> >>

\* s[k:] of a str.
RECURSIVE Drop(_, _)
Drop(s, k) ==
    IF s = <<>> \/ k <= 0 THEN s
    ELSE IF s[1][2] <= k THEN Drop(Tail(s), k - s[1][2])
    ELSE << <<s[1][1], s[1][2] - k>> >> \o Tail(s)

\* The code points str.splitlines treats as line boundaries:
\* \n \v \f \r \x1c \x1d \x1e \x85     (and the pair \r\n).
LineBreaks == {10, 11, 12, 13, 28, 29, 30, 133, 8232, 8233}

LF == 10
CR == 13

\* The string without its first character.
DropOne(s) == Drop(s, 1)

\* s.splitlines(keepends=True): cur is the line collected so far.
RECURSIVE SplitFrom(_, _)
SplitFrom(cur, s) ==
    IF s = <<>> THEN (IF cur = <<>> THEN <<>> ELSE <<cur>>)
    ELSE LET c == s[1][1] IN
         IF c \notin LineBreaks
         THEN SplitFrom(Cat(cur, <<s[1]>>), Tail(s))
         ELSE IF c = CR /\ s[1][2] = 1 /\ Len(s) > 1 /\ s[2][1] = LF
         THEN <<Cat(cur, << <<CR, 1>>, <<LF, 1>> >>)>>
              \o SplitFrom(<<>>, DropOne(Tail(s)))
         ELSE <<Cat(cur, << <<c, 1>> >>)>> \o SplitFrom(<<>>, DropOne(s))

splitlines(s) == SplitFrom(<<>>, s)

\* UTF-8 encoding of one code point that is not a surrogate.
Utf8(c) ==
    IF c < 128 THEN <<c>>
    ELSE IF c < 2048 THEN <<192 + (c \div 64), 128 + (c % 64)>>
    ELSE IF c < 65536
         THEN <<224 + (c \div 4096), 128 + ((c \div 64) % 64), 128 + (c % 64)>>
    ELSE <<240 + (c \div 262144), 128 + ((c \div 4096) % 64),
           128 + ((c \div 64) % 64), 128 + (c % 64)>>

\* Lone surrogates U+D800..U+DFFF have no UTF-8 encoding.
IsSurrogate(c) == c >= 55296 /\ c <= 57343

\* The ASCII code of a lower-case hexadecimal digit.
HexDigit(d) == IF d < 10 THEN 48 + d ELSE 87 + d

\* The "backslashreplace" error handler: the six ASCII bytes \uXXXX.
BackslashReplace(c) ==
    <<92, 117, HexDigit(c \div 4096), HexDigit((c \div 256) % 16),
      HexDigit((c \div 16) % 16), HexDigit(c % 16)>>

\* Whether s.encode("UTF-8", errors) succeeds ("strict" raises
\* UnicodeEncodeError on a lone surrogate).
CanEncode(s, errors) ==
    errors = "strict" => \A i \in 1..Len(s) : ~IsSurrogate(s[i][1])

\* The bytes one character encodes to under the error policy.
EncodeChar(c, errors) ==
    IF IsSurrogate(c) THEN BackslashReplace(c) ELSE Utf8(c)

\* s.encode(self.encoding, self.errors), for an encodable s.
encode(s, errors) == [i \in 1..Len(s) |-> <<EncodeChar(s[i][1], errors), s[i][2]>>]

\* len(b) of a bytes object.
RECURSIVE BytesLen(_)
BytesLen(b) == IF b = <<>> THEN 0 ELSE Len(b[1][1]) * b[1][2] + BytesLen(Tail(b))

\* b.endswith(b"\n")
EndsWithNewline(b) ==
    b # <<>> /\ b[Len(b)][1][Len(b[Len(b)][1])] = LF

\* b"".join(blocks)
RECURSIVE Join(_)
Join(blocks) == IF blocks = <<>> THEN <<>> ELSE Cat(Head(blocks), Join(Tail(blocks)))

\* u.replace(b"\x00", b"\xc0\x80") on the bytes of one unit.
RECURSIVE EscapeUnit(_)
EscapeUnit(u) ==
    IF u = <<>> THEN <<>>
    ELSE (IF u[1] = 0 THEN <<192, 128>> ELSE <<u[1]>>) \o EscapeUnit(Tail(u))

\* b.replace(b"\x00", b"\xc0\x80")
EscapeNul(b) == [i \in 1..Len(b) |-> <<EscapeUnit(b[i][1]), b[i][2]>>]


(***************************************************************************)
(* Python values passed to write(): a type name and, for str and the       *)
(* bytes-like types, the content.                                          *)
(***************************************************************************)
Str(v) == [type |-> "str", v |-> v]
Bytes(v) == [type |-> "bytes", v |-> v]
ByteArray(v) == [type |-> "bytearray", v |-> v]
NoneValue == [type |-> "NoneType", v |-> <<>>]

\* Mutant of IsStr: the type check is missing.
IsStrAlways(x) == TRUE

\* isinstance(s, str)
IsStr(x) == x.type = "str"

\* Whether memoryview(b) succeeds (the buffer protocol).
IsBytesLike(x) == x.type \in {"bytes", "bytearray"}

(***************************************************************************)
(* The inputs explored.                                                    *)
(***************************************************************************)
Texts ==
    { <<>>,                                   \* ""
      << <<97, 1>> >>,                        \* "a"
      << <<97, 1>>, <<LF, 1>> >>,             \* "a\n"
      << <<LF, 1>>, <<97, 1>> >>,             \* "\na"
      << <<97, 1>>, <<CR, 1>> >>,             \* "a\r"
      << <<97, 1>>, <<CR, 1>>, <<LF, 1>> >>,  \* "a\r\n"
      << <<0, 2001>> >>,                      \* "\x00" * 2001
      << <<97, 4200>>, <<LF, 1>> >>,          \* "a" * 4200 + "\n"
      << <<65296, 1000>> >>,                  \* "０" * 1000 (3 bytes each)
      << <<56448, 1000>> >> }                 \* "\udc80" * 1000 (lone surrogates)

\* The texts the two-thread specification explores.
ConcTexts ==
    { <<>>,                                   \* ""
      << <<97, 1>> >>,                        \* "a"
      << <<97, 1>>, <<LF, 1>> >>,             \* "a\n"
      << <<56448, 1001>> >> }                 \* "\udc80" * 1001 (two chunks)

\* Arguments of TextLogStream.write that are not str.
NonTexts == { Bytes(<<>>) }

\* Arguments of a direct BinaryLogStream.write.
Blocks ==
    { Bytes(<<>>),                                  \* b""
      Bytes(<< << <<0>>, 1>>, << <<97>>, 1>> >>),   \* b"\x00a"
      ByteArray(<< << <<97>>, 1>> >>),              \* bytearray(b"a")
      Str(<<>>) }                                   \* "" (not bytes-like)

Threads == {"T1", "T2"}
NoThread == "none"

\* The number of calls explored in one behaviour of Spec (two threads).
MaxCalls == 2

\* The number of calls explored in one behaviour of SpecSeq (one thread).
MaxSeqCalls == 2

(***************************************************************************)
(* State.                                                                  *)
(***************************************************************************)
VARIABLES
    write_through,        \* TextIOWrapper.write_through
    errors,               \* TextIOWrapper.errors
    pending_bytes,        \* self._pending_bytes: a list of bytes objects
    pending_bytes_count,  \* self._pending_bytes_count
    lock,                 \* self._lock (RLock): [owner, depth]
    pc,                   \* pc[t]: where thread t is
    s,                    \* s[t]: the text of the write in progress
    lines,                \* lines[t]: the lines the for loop has not reached
    line,                 \* line[t]: what is left of the current line
    b,                    \* b[t]: the encoded chunk of _write_chunk
    fret,                 \* fret[t]: who called flush: "call", "pre", "post"
    barg,                 \* barg[t]: the argument of BinaryLogStream.write
    log,                  \* the records android_log_write has accepted
    call,                 \* call[t]: the observer's notes on the call in progress
    last,                 \* the observer's notes on the call that ended last
    written,              \* all texts passed to TextLogStream.write, joined
    seen,                 \* kinds of event that have happened so far
    ncalls,               \* calls started so far
    order                 \* the text stream's calls that ended, in that order

vars == <<write_through, errors, pending_bytes, pending_bytes_count, lock, pc,
          s, lines, line, b, fret, barg, log, call, last, written, seen,
          ncalls, order>>

config == <<write_through, errors>>
buffer == <<pending_bytes, pending_bytes_count>>
locals == <<s, lines, line, b, fret, barg>>

\* BinaryLogStream.prio and .tag of sys.stdout's stream.
prio == "stdout_prio"
tag == "python.stdout"

NoCall == [op |-> "none", arg |-> NoneValue, ncb |-> 0, recs |-> <<>>,
           pend0 |-> <<>>, cnt0 |-> 0, chunks |-> 0]

NoLast == [op |-> "none", arg |-> NoneValue, ncb |-> 0, recs |-> <<>>,
           pend0 |-> <<>>, cnt0 |-> 0, chunks |-> 0, thread |-> NoThread,
           outcome |-> "none", value |-> 0, pend1 |-> <<>>, cnt1 |-> 0]

Init ==
    /\ write_through \in BOOLEAN
    /\ errors \in {"strict", "backslashreplace"}
    /\ pending_bytes = <<>>
    /\ pending_bytes_count = 0
    /\ lock = [owner |-> NoThread, depth |-> 0]
    /\ pc = [t \in Threads |-> "idle"]
    /\ s = [t \in Threads |-> <<>>]
    /\ lines = [t \in Threads |-> <<>>]
    /\ line = [t \in Threads |-> <<>>]
    /\ b = [t \in Threads |-> <<>>]
    /\ fret = [t \in Threads |-> "none"]
    /\ barg = [t \in Threads |-> NoneValue]
    /\ log = <<>>
    /\ call = [t \in Threads |-> NoCall]
    /\ last = NoLast
    /\ written = <<>>
    /\ seen = {}
    /\ ncalls = 0
    /\ order = <<>>


(***************************************************************************)
(* Helpers of the actions.                                                 *)
(***************************************************************************)

\* Mutant of CanAcquire: the lock excludes no other thread.
CanAcquireAlways(t) == TRUE

\* Mutant of CanAcquire: a plain Lock, which its owner cannot take again.
CanAcquireNonReentrant(t) == lock.owner = NoThread

\* RLock.acquire() by t succeeds when the lock is free or t already owns it.
CanAcquire(t) == lock.owner \in {NoThread, t}

\* Mutant of Acquired: the with block does not take the lock.
NotAcquired(t) == lock

\* RLock.acquire() has succeeded: t owns the lock once more.
Acquired(t) == [owner |-> t, depth |-> lock.depth + 1]

\* RLock.release(): leaving one "with self._lock" block.
Released ==
    IF lock.depth = 1 THEN [owner |-> NoThread, depth |-> 0]
    ELSE [lock EXCEPT !.depth = @ - 1]

\* An exception leaving every "with self._lock" block thread t is in.
Unwound(t) ==
    IF lock.owner = t THEN [owner |-> NoThread, depth |-> 0] ELSE lock

\* Mutant of Cleared: the list is not cleared.
NotCleared == pending_bytes

\* What flush() does to the buffer after buffer.write has returned.
Cleared == <<>>

\* Mutant of BinaryResult: the length of the escaped payload.
BinaryResultEscaped(blk) == BytesLen(EscapeNul(blk))

\* What BinaryLogStream.write returns for the block blk.
BinaryResult(blk) == BytesLen(blk)

\* What TextLogStream.write returns for the text txt.
TextResult(txt) == StrLen(txt)

\* Mutant of Payload: the block is passed on as it is.
PayloadRaw(blk) == blk

\* The payload BinaryLogStream.write hands to android_log_write.
Payload(blk) == EscapeNul(blk)

\* Mutant of FlushBefore: the test of line 72 is missing.
FlushBeforeNever(blk) == FALSE

\* Whether _write_chunk flushes before appending the encoded chunk blk.
FlushBefore(blk) == pending_bytes_count + BytesLen(blk) > MAX_BYTES_PER_WRITE

\* Mutant of FlushAfter: write_through is not looked at.
FlushAfterNoWriteThrough(blk, cnt) ==
    EndsWithNewline(blk) \/ cnt > MAX_BYTES_PER_WRITE

\* Whether _write_chunk flushes after appending blk (cnt: the new count).
FlushAfter(blk, cnt) ==
    write_through \/ EndsWithNewline(blk) \/ cnt > MAX_BYTES_PER_WRITE

\* The property line_buffering, lines 92-94.
line_buffering == TRUE

\* Thread t's frame is popped: its locals go back to their defaults.
Pop(t) ==
    /\ s' = [s EXCEPT ![t] = <<>>]
    /\ lines' = [lines EXCEPT ![t] = <<>>]
    /\ line' = [line EXCEPT ![t] = <<>>]
    /\ b' = [b EXCEPT ![t] = <<>>]
    /\ fret' = [fret EXCEPT ![t] = "none"]
    /\ barg' = [barg EXCEPT ![t] = NoneValue]

\* The call of thread t ends (outcome: "return" or the exception's name).
Finish(t, c, outcome, value) ==
    /\ pc' = [pc EXCEPT ![t] = "idle"]
    /\ call' = [call EXCEPT ![t] = NoCall]
    /\ last' = [op |-> c.op, arg |-> c.arg, ncb |-> c.ncb, recs |-> c.recs,
                pend0 |-> c.pend0, cnt0 |-> c.cnt0, chunks |-> c.chunks,
                thread |-> t, outcome |-> outcome, value |-> value,
                pend1 |-> pending_bytes', cnt1 |-> pending_bytes_count']
    /\ order' = IF c.op \in {"write", "flush"} /\ outcome # "TypeError"
                THEN Append(order, [op |-> c.op, arg |-> c.arg,
                                    outcome |-> outcome, n |-> Len(c.recs)])
                ELSE order
    /\ Pop(t)

\* A call starts on thread t.
Begin(t, op, x) ==
    /\ ncalls' = ncalls + 1
    /\ seen' = seen \cup (IF \E u \in Threads : pc[u] # "idle"
                          THEN {"concurrent"} ELSE {})
                    \cup (IF op = "bwrite" THEN {"binary"} ELSE {})
                    \cup (IF op = "write" /\ ~IsStr(x) THEN {"TypeError"} ELSE {})

NewCall(op, x) == [NoCall EXCEPT !.op = op, !.arg = x]


(***************************************************************************)
(* BinaryLogStream.write(b), lines 109-126, as its two callers run it:     *)
(* TextLogStream.flush and a direct caller of sys.stdout.buffer.write.     *)
(***************************************************************************)

\* Mutant of CallsPlatform: the test for an empty block is missing.
CallsPlatformAlways(blk) == TRUE

\* Line 119, "if b:": whether android_log_write is called for the block.
CallsPlatform(blk) == blk # <<>>

\* The thread is inside android_log_write(prio, tag, payload): the note of
\* the call.
Calling(c) == [c EXCEPT !.ncb = @ + 1]

\* android_log_write has returned: the note of the record it accepted.
Called(c, payload) == [c EXCEPT !.recs = Append(@, payload)]

(***************************************************************************)
(* TextLogStream.flush(), lines 84-88.                                     *)
(***************************************************************************)

\* Lines 87-88 and the return of flush() to its caller; lk is the lock
\* after flush's with block is left.
FlushDone(t, c, lk) ==
    /\ pending_bytes' = Cleared
    /\ pending_bytes_count' = 0
    /\ lock' = lk
    /\ IF fret[t] = "call"
       THEN Finish(t, c, "return", 0)
       ELSE /\ pc' = [pc EXCEPT ![t] =
                         IF fret[t] = "pre" THEN "append" ELSE "write_loop"]
            /\ fret' = [fret EXCEPT ![t] = "none"]
            /\ barg' = [barg EXCEPT ![t] = NoneValue]
            /\ call' = [call EXCEPT ![t] = c]
            /\ UNCHANGED <<s, lines, line, b, last, order>>

\* A caller's flush(): the thread then waits for the lock of line 85.
Flush(t) ==
    /\ pc[t] = "idle"
    /\ Begin(t, "flush", NoneValue)
    /\ pc' = [pc EXCEPT ![t] = "flush_lock"]
    /\ fret' = [fret EXCEPT ![t] = "call"]
    /\ call' = [call EXCEPT ![t] = NewCall("flush", NoneValue)]
    /\ UNCHANGED <<config, buffer, lock, s, lines, line, b, barg, log, last,
                   order, written>>

\* Lines 85-86: the lock is entered (again, when _write_chunk is the caller),
\* the pending blocks are joined and buffer.write is called with the result:
\* it calls android_log_write, or (nothing pending) returns at once and
\* lines 87-88 follow.
FlushLock(t) ==
    /\ pc[t] = "flush_lock"
    /\ CanAcquire(t)
    /\ UNCHANGED <<config, log, written, seen, ncalls>>
    /\ LET blk == Join(pending_bytes)
           c == IF fret[t] = "call"
                THEN [call[t] EXCEPT !.pend0 = pending_bytes,
                                     !.cnt0 = pending_bytes_count]
                ELSE call[t]
       IN IF CallsPlatform(blk)
          THEN /\ lock' = Acquired(t)
               /\ barg' = [barg EXCEPT ![t] = Bytes(blk)]
               /\ call' = [call EXCEPT ![t] = Calling(c)]
               /\ pc' = [pc EXCEPT ![t] = "flush_log_write"]
               /\ UNCHANGED <<buffer, s, lines, line, b, fret, last, order>>
          ELSE FlushDone(t, c, lock)

\* android_log_write returns to BinaryLogStream.write and that to flush:
\* the platform has the record, and lines 87-88 follow.
FlushLogWritten(t) ==
    /\ pc[t] = "flush_log_write"
    /\ UNCHANGED <<config, written, seen, ncalls>>
    /\ log' = Append(log, [prio |-> prio, tag |-> tag,
                           msg |-> Payload(barg[t].v)])
    /\ FlushDone(t, Called(call[t], Payload(barg[t].v)), Released)

\* Mutant of FlushLogFailed: the buffer is cleared before the platform call
\* is made, so a call that raises leaves it empty.
FlushLogFailedCleared(t) ==
    /\ pc[t] = "flush_log_write"
    /\ UNCHANGED <<config, log, written, ncalls>>
    /\ pending_bytes' = <<>>
    /\ pending_bytes_count' = 0
    /\ lock' = Unwound(t)
    /\ seen' = seen \cup {"OSError"}
    /\ Finish(t, call[t], "OSError", 0)

\* android_log_write raises: nothing catches the exception, so it leaves
\* BinaryLogStream.write, flush's with block (before line 87) and, when
\* _write_chunk called flush, write's with block.
FlushLogFailed(t) ==
    /\ pc[t] = "flush_log_write"
    /\ UNCHANGED <<config, buffer, log, written, ncalls>>
    /\ lock' = Unwound(t)
    /\ seen' = seen \cup {"OSError"}
    /\ Finish(t, call[t], "OSError", 0)

(***************************************************************************)
(* TextLogStream.write(x), lines 47-66.                                    *)
(***************************************************************************)

\* Lines 47-54: the type check and the conversion to an exact str; the
\* thread then waits for the lock of line 59.
Write(t, x) ==
    /\ pc[t] = "idle"
    /\ UNCHANGED <<config, buffer, lock, log>>
    /\ Begin(t, "write", x)
    /\ IF ~IsStr(x)
       THEN /\ Finish(t, NewCall("write", x), "TypeError", 0)
            /\ UNCHANGED <<written>>
       ELSE /\ pc' = [pc EXCEPT ![t] = "write_lock"]
            /\ s' = [s EXCEPT ![t] = x.v]
            /\ call' = [call EXCEPT ![t] = NewCall("write", x)]
            /\ written' = Cat(written, x.v)
            /\ UNCHANGED <<lines, line, b, fret, barg, last, order>>

\* Lines 59-60: "with self._lock" is entered and s.splitlines(keepends=True)
\* is evaluated.
WriteLock(t) ==
    /\ pc[t] = "write_lock"
    /\ CanAcquire(t)
    /\ lock' = Acquired(t)
    /\ lines' = [lines EXCEPT ![t] = splitlines(s[t])]
    /\ line' = [line EXCEPT ![t] = <<>>]
    /\ call' = [call EXCEPT ![t].pend0 = pending_bytes,
                            ![t].cnt0 = pending_bytes_count]
    /\ pc' = [pc EXCEPT ![t] = "write_loop"]
    /\ UNCHANGED <<config, buffer, s, b, fret, barg, log, last, order, written,
                   seen, ncalls>>

\* The line the while loop of line 61 works on next.
CurrentLine(t) == IF line[t] # <<>> THEN line[t] ELSE Head(lines[t])

\* Line 62: the chunk cut off the line.
Chunk(ln) == Take(ln, MAX_CHARS_PER_WRITE)

\* Mutant of Rest: the slice starts one character too far.
RestSkipsOne(ln) == Drop(ln, MAX_CHARS_PER_WRITE + 1)

\* Line 63: what is left of the line.
Rest(ln) == Drop(ln, MAX_CHARS_PER_WRITE)

\* Lines 60-64 and 71-73: one step of "for line in ...: while line:": the
\* next chunk is cut off, _write_chunk is called with it and encodes it; a
\* flush comes first when appending would pass MAX_BYTES_PER_WRITE.
WriteChunk(t) ==
    /\ pc[t] = "write_loop"
    /\ line[t] # <<>> \/ lines[t] # <<>>
    /\ CanEncode(Chunk(CurrentLine(t)), errors)
    /\ line' = [line EXCEPT ![t] = Rest(CurrentLine(t))]
    /\ lines' = [lines EXCEPT ![t] = IF line[t] # <<>> THEN @ ELSE Tail(@)]
    /\ call' = [call EXCEPT ![t].chunks = @ + 1]
    /\ LET blk == encode(Chunk(CurrentLine(t)), errors)
       IN /\ b' = [b EXCEPT ![t] = blk]
          /\ IF FlushBefore(blk)
             THEN /\ pc' = [pc EXCEPT ![t] = "flush_lock"]
                  /\ fret' = [fret EXCEPT ![t] = "pre"]
             ELSE /\ pc' = [pc EXCEPT ![t] = "append"]
                  /\ UNCHANGED fret
    /\ UNCHANGED <<config, buffer, lock, s, barg, log, last, order, written,
                   seen, ncalls>>

\* Line 71 raising UnicodeEncodeError: it leaves write's with block.
EncodeError(t) ==
    /\ pc[t] = "write_loop"
    /\ line[t] # <<>> \/ lines[t] # <<>>
    /\ ~CanEncode(Chunk(CurrentLine(t)), errors)
    /\ UNCHANGED <<config, buffer, log, written, ncalls>>
    /\ lock' = Unwound(t)
    /\ seen' = seen \cup {"UnicodeEncodeError"}
    /\ Finish(t, [call[t] EXCEPT !.chunks = @ + 1], "UnicodeEncodeError", 0)

\* Lines 75-82: the chunk is appended and counted; then the second flush
\* condition is tested.
Append_(t) ==
    /\ pc[t] = "append"
    /\ pending_bytes' = Append(pending_bytes, b[t])
    /\ pending_bytes_count' = pending_bytes_count + BytesLen(b[t])
    /\ IF FlushAfter(b[t], pending_bytes_count')
       THEN /\ pc' = [pc EXCEPT ![t] = "flush_lock"]
            /\ fret' = [fret EXCEPT ![t] = "post"]
       ELSE /\ pc' = [pc EXCEPT ![t] = "write_loop"]
            /\ UNCHANGED fret
    /\ UNCHANGED <<config, lock, s, lines, line, b, barg, log, call, last,
                   order, written, seen, ncalls>>

\* Lines 60, 66: the for loop is over; the lock is released and len(s) is
\* returned.
WriteReturn(t) ==
    /\ pc[t] = "write_loop"
    /\ line[t] = <<>> /\ lines[t] = <<>>
    /\ UNCHANGED <<config, buffer, log, written, seen, ncalls>>
    /\ lock' = Released
    /\ Finish(t, call[t], "return", TextResult(s[t]))

(***************************************************************************)
(* A direct call of BinaryLogStream.write (sys.stdout.buffer.write(x)),    *)
(* lines 109-126.  It takes no lock.                                       *)
(***************************************************************************)

\* Lines 110-124: TypeError for an argument without the buffer protocol;
\* android_log_write is called for a non-empty block; an empty one returns
\* len(b) at once.
BinaryWrite(t, x) ==
    /\ pc[t] = "idle"
    /\ UNCHANGED <<config, buffer, lock, log, written>>
    /\ Begin(t, "bwrite", x)
    /\ IF ~IsBytesLike(x)
       THEN Finish(t, NewCall("bwrite", x), "TypeError", 0)
       ELSE IF CallsPlatform(x.v)
       THEN /\ pc' = [pc EXCEPT ![t] = "log_write"]
            /\ barg' = [barg EXCEPT ![t] = Bytes(x.v)]
            /\ call' = [call EXCEPT ![t] = Calling(NewCall("bwrite", x))]
            /\ UNCHANGED <<s, lines, line, b, fret, last, order>>
       ELSE Finish(t, NewCall("bwrite", x), "return", BinaryResult(x.v))

\* android_log_write returns; line 126 returns len(b).
LogWritten(t) ==
    /\ pc[t] = "log_write"
    /\ UNCHANGED <<config, buffer, lock, written, seen, ncalls>>
    /\ log' = Append(log, [prio |-> prio, tag |-> tag,
                           msg |-> Payload(barg[t].v)])
    /\ Finish(t, Called(call[t], Payload(barg[t].v)), "return",
              BinaryResult(barg[t].v))

\* android_log_write raises: the exception reaches the caller.
LogFailed(t) ==
    /\ pc[t] = "log_write"
    /\ UNCHANGED <<config, buffer, lock, log, written, ncalls>>
    /\ seen' = seen \cup {"OSError"}
    /\ Finish(t, call[t], "OSError", 0)

(***************************************************************************)
(* The specifications.                                                     *)
(*   Spec:    two threads calling write and flush on the text stream and   *)
(*            write on its binary stream, interleaved in every way.        *)
(*   SpecSeq: one thread making the same calls one after the other, with   *)
(*            more texts.                                                  *)
(*   SpecFair: Spec under fair scheduling of the threads.                  *)
(***************************************************************************)
Next ==
    \E t \in Threads :
        \/ /\ ncalls < MaxCalls
           /\ \E x \in {Str(v) : v \in ConcTexts} \cup NonTexts : Write(t, x)
        \/ ncalls < MaxCalls /\ Flush(t)
        \/ ncalls < MaxCalls /\ \E x \in Blocks : BinaryWrite(t, x)
        \/ WriteLock(t)
        \/ WriteChunk(t)
        \/ EncodeError(t)
        \/ Append_(t)
        \/ WriteReturn(t)
        \/ FlushLock(t)
        \/ FlushLogWritten(t)
        \/ FlushLogFailed(t)
        \/ LogWritten(t)
        \/ LogFailed(t)

Spec == Init /\ [][Next]_vars

NextSeq ==
    \/ /\ ncalls < MaxSeqCalls
       /\ \E x \in {Str(v) : v \in Texts} \cup NonTexts : Write("T1", x)
    \/ ncalls < MaxSeqCalls /\ Flush("T1")
    \/ ncalls < MaxSeqCalls /\ \E x \in Blocks : BinaryWrite("T1", x)
    \/ WriteLock("T1")
    \/ WriteChunk("T1")
    \/ EncodeError("T1")
    \/ Append_("T1")
    \/ WriteReturn("T1")
    \/ FlushLock("T1")
    \/ FlushLogWritten("T1")
    \/ FlushLogFailed("T1")
    \/ LogWritten("T1")
    \/ LogFailed("T1")

SpecSeq == Init /\ [][NextSeq]_vars

\* The steps thread t takes inside a call it has started.
Proceed(t) ==
    \/ WriteLock(t)
    \/ WriteChunk(t)
    \/ EncodeError(t)
    \/ Append_(t)
    \/ WriteReturn(t)
    \/ FlushLock(t)
    \/ FlushLogWritten(t)
    \/ FlushLogFailed(t)
    \/ LogWritten(t)
    \/ LogFailed(t)

\* Spec under fair scheduling: a thread that can go on inside its call
\* does so in the end, and android_log_write returns or raises.
SpecFair == Spec /\ \A t \in Threads : WF_vars(Proceed(t))


(***************************************************************************)
(* Notions the properties use.                                             *)
(***************************************************************************)

\* No call is in progress.
AllIdle == \A t \in Threads : pc[t] = "idle"

\* A platform call has failed at some point.
PlatformFailed == "OSError" \in seen

\* The payloads android_log_write is being called with right now.
InFlight == {Payload(barg[t].v) : t \in {u \in Threads :
                 pc[u] \in {"log_write", "flush_log_write"}}}

\* The NUL escaping reversed: the two bytes C0 80 back to one 00 byte.
UnescapeNul(blk) ==
    [i \in 1..Len(blk) |->
        <<IF blk[i][1] = <<192, 128>> THEN <<0>> ELSE blk[i][1], blk[i][2]>>]

\* The payloads of the first n records, unescaped and concatenated.
RECURSIVE Delivered(_)
Delivered(n) ==
    IF n = 0 THEN <<>>
    ELSE Cat(Delivered(n - 1), UnescapeNul(log[n].msg))

\* Everything delivered so far, followed by what is pending.
Output == Cat(Delivered(Len(log)), Join(pending_bytes))

\* The sum of the lengths of the blocks of a list of bytes objects.
RECURSIVE SumLen(_)
SumLen(blocks) ==
    IF blocks = <<>> THEN 0 ELSE BytesLen(Head(blocks)) + SumLen(Tail(blocks))

(***************************************************************************)
(* C1.  No record exceeds the byte ceiling: every payload passed to the    *)
(* platform log-write callback by the text stream is at most               *)
(* MAX_BYTES_PER_WRITE bytes long.  (Refuted: the NUL escaping of line 124 *)
(* and the backslashreplace error handler both make payloads longer than   *)
(* the bytes _write_chunk counted.)                                        *)
(***************************************************************************)
C1_NoRecordExceedsCeiling ==
    /\ \A i \in 1..Len(log) : BytesLen(log[i].msg) <= MAX_BYTES_PER_WRITE
    /\ \A m \in InFlight : BytesLen(m) <= MAX_BYTES_PER_WRITE

(***************************************************************************)
(* C2.  Lossless, order-preserving delivery: between the calls of one      *)
(* thread, when no platform call has failed, the payloads delivered so far *)
(* (NUL escaping reversed) followed by the pending bytes are the encoding  *)
(* of all texts written so far.                                            *)
(***************************************************************************)

\* C2 as stated: only a failed platform call is excepted.  (Refuted: under
\* errors="strict" a text with a lone surrogate has no encoding; write
\* raises UnicodeEncodeError after delivering the chunks before it.)
C2_LosslessAsStated ==
    (AllIdle /\ seen \cap {"OSError", "concurrent", "binary"} = {})
        => /\ CanEncode(written, errors)
           /\ Output = encode(written, errors)

\* C2 as amended: in a sequence of write and flush calls in which no
\* platform call fails and no write raises an encoding error, the delivered
\* payloads (unescaped) followed by the pending bytes are the encoding of
\* all texts written so far.
C2_Lossless ==
    (AllIdle /\ seen \cap {"OSError", "UnicodeEncodeError", "concurrent",
                           "binary"} = {})
        => Output = encode(written, errors)

\* C2's case: two writes have returned, one record with an escaped NUL is
\* delivered, and bytes of the second write are still pending.
C2_Witness ==
    /\ AllIdle
    /\ seen = {}
    /\ ncalls = 2
    /\ Len(log) = 1
    /\ \E i \in 1..Len(log[1].msg) : log[1].msg[i][1] = <<192, 128>>
    /\ pending_bytes # <<>>

(***************************************************************************)
(* C3.  Whenever TextLogStream.write(s) returns, it returns len(s) in      *)
(* characters, and whenever BinaryLogStream.write(b) returns, it returns   *)
(* len(b), the length before the NUL escaping.                             *)
(***************************************************************************)
C3_ReturnValue ==
    last.outcome = "return" =>
        /\ last.op = "write" => last.value = StrLen(last.arg.v)
        /\ last.op = "bwrite" => last.value = BytesLen(last.arg.v)

\* C3's case: a binary write has returned after sending an escaped payload
\* longer than its block.
C3_Witness ==
    /\ last.op = "bwrite"
    /\ last.outcome = "return"
    /\ Len(last.recs) = 1
    /\ BytesLen(last.recs[1]) > BytesLen(last.arg.v)

(***************************************************************************)
(* C4.  Empty input never reaches the platform: write("") makes no         *)
(* platform call and leaves pending and its count as they were; a binary   *)
(* write of an empty block makes no platform call and returns 0; flush()   *)
(* with nothing pending makes no platform call; and the callback is never  *)
(* invoked with an empty payload.                                          *)
(***************************************************************************)
C4_EmptyInput ==
    /\ \A i \in 1..Len(log) : log[i].msg # <<>>
    /\ \A m \in InFlight : m # <<>>
    /\ (last.op = "write" /\ last.arg = Str(<<>>)) =>
          /\ last.outcome = "return"
          /\ last.ncb = 0
          /\ last.pend1 = last.pend0
          /\ last.cnt1 = last.cnt0
    /\ (last.op = "bwrite" /\ IsBytesLike(last.arg) /\ last.arg.v = <<>>) =>
          /\ last.outcome = "return"
          /\ last.ncb = 0
          /\ last.value = 0
    /\ (last.op = "flush" /\ Join(last.pend0) = <<>>) =>
          /\ last.outcome = "return"
          /\ last.ncb = 0
          /\ last.pend1 = <<>>

\* C4's case: write("") has returned while bytes were pending.
C4_Witness ==
    /\ last.op = "write"
    /\ last.arg = Str(<<>>)
    /\ last.outcome = "return"
    /\ last.pend0 # <<>>

(***************************************************************************)
(* C5.  Whenever the lock is free (so no write or flush is inside its      *)
(* critical section, and in particular whenever no call is in progress),   *)
(* _pending_bytes_count is the sum of the lengths of the blocks of         *)
(* _pending_bytes: for every interleaving of the calls of two threads, and *)
(* after calls that ended with a TypeError or a failed platform call.      *)
(***************************************************************************)
C5_CountIsSum ==
    lock.owner = NoThread => pending_bytes_count = SumLen(pending_bytes)

\* C5's case: two overlapping calls have ended, one with a failed platform
\* call, and both their chunks are still pending.
C5_Witness ==
    /\ AllIdle
    /\ {"OSError", "concurrent"} \subseteq seen
    /\ Len(pending_bytes) = 2


(***************************************************************************)
(* C6.  Where _write_chunk appends the encoded chunk (after the flush of   *)
(* line 73, if any) either nothing is pending or the count plus the        *)
(* chunk's length is at most MAX_BYTES_PER_WRITE; and whenever no call is  *)
(* in progress the count is at most MAX_BYTES_PER_WRITE.  (Refuted: a      *)
(* chunk of 1000 lone surrogates encodes to 6000 bytes under               *)
(* backslashreplace, and stays pending when the platform call fails.)      *)
(***************************************************************************)
C6_CountBound ==
    /\ \A t \in Threads :
          pc[t] = "append" =>
              \/ pending_bytes = <<>>
              \/ pending_bytes_count + BytesLen(b[t]) <= MAX_BYTES_PER_WRITE
    /\ AllIdle => pending_bytes_count <= MAX_BYTES_PER_WRITE

(***************************************************************************)
(* C7.  Every line terminator forces a flush: after write(s) returns for a *)
(* text s that ends with a line terminator (a line segment that retains    *)
(* its terminator), nothing is pending; and line_buffering is true.        *)
(* (Refuted: splitlines ends a line at "\r" and eight more terminators,    *)
(* line 79 flushes only after "\n".)                                       *)
(***************************************************************************)
EndsWithLineBreak(txt) == txt # <<>> /\ txt[Len(txt)][1] \in LineBreaks

C7_TerminatorFlushes ==
    /\ line_buffering
    /\ (last.op = "write" /\ last.outcome = "return"
          /\ EndsWithLineBreak(last.arg.v))
       => last.pend1 = <<>>

(***************************************************************************)
(* C8.  Coalescing, with write_through off: a write without a line         *)
(* terminator that keeps the pending bytes at or below the ceiling makes   *)
(* no platform call and adds its bytes to the pending ones; a flush()      *)
(* delivers the pending bytes as exactly one record; the first line        *)
(* terminator of a later write delivers them, with the text up to that     *)
(* terminator, as one record; and the text after the last terminator of a  *)
(* write stays pending.  (Refuted for the terminator "\r", see C7.)        *)
(***************************************************************************)
HasLineBreak(txt) == \E i \in 1..Len(txt) : txt[i][1] \in LineBreaks

FirstLine(txt) == splitlines(txt)[1]
LastLine(txt) == splitlines(txt)[Len(splitlines(txt))]

C8_Coalescing ==
    (~write_through /\ last.outcome = "return") =>
        /\ (last.op = "write" /\ ~HasLineBreak(last.arg.v)
              /\ last.cnt0 + BytesLen(encode(last.arg.v, errors))
                     <= MAX_BYTES_PER_WRITE)
           => /\ last.ncb = 0
              /\ Join(last.pend1)
                   = Cat(Join(last.pend0), encode(last.arg.v, errors))
        /\ (last.op = "flush" /\ Join(last.pend0) # <<>>)
           => last.recs = <<EscapeNul(Join(last.pend0))>>
        /\ (last.op = "write" /\ HasLineBreak(last.arg.v)
              /\ last.cnt0 + BytesLen(encode(FirstLine(last.arg.v), errors))
                     <= MAX_BYTES_PER_WRITE)
           => /\ last.recs # <<>>
              /\ last.recs[1]
                   = EscapeNul(Cat(Join(last.pend0),
                                   encode(FirstLine(last.arg.v), errors)))
        /\ (last.op = "write" /\ HasLineBreak(last.arg.v)
              /\ ~EndsWithLineBreak(last.arg.v)
              /\ BytesLen(encode(LastLine(last.arg.v), errors))
                     <= MAX_BYTES_PER_WRITE)
           => Join(last.pend1) = encode(LastLine(last.arg.v), errors)

(***************************************************************************)
(* C9.  Flush before overflow: when appending a chunk would push the count *)
(* above the ceiling, the pending bytes are first delivered as a record of *)
(* their own that does not exceed the ceiling, and the chunk starts a      *)
(* fresh buffer; so the line "a" * 4200 + "\n" written to an empty buffer  *)
(* yields exactly two records, the first 4000 bytes and then the other 200 *)
(* with the newline.  (Refuted: the record of the pending bytes exceeds    *)
(* the ceiling when they hold NUL bytes, see C1.)                          *)
(***************************************************************************)
LongLine == << <<97, 4200>>, <<LF, 1>> >>

C9_FlushBeforeOverflow ==
    /\ \A t \in Threads :
          /\ pc[t] = "append" =>
                \/ pending_bytes = <<>>
                \/ pending_bytes_count + BytesLen(b[t]) <= MAX_BYTES_PER_WRITE
          /\ (pc[t] = "flush_log_write" /\ fret[t] = "pre") =>
                BytesLen(Payload(barg[t].v)) <= MAX_BYTES_PER_WRITE
    /\ (~write_through /\ last.op = "write" /\ last.outcome = "return"
          /\ last.arg = Str(LongLine) /\ last.pend0 = <<>>)
       => last.recs = << << << <<97>>, 4000>> >>,
                         << << <<97>>, 200>>, << <<LF>>, 1>> >> >>

(***************************************************************************)
(* C10.  write_through forces a flush after every chunk.                   *)
(***************************************************************************)

\* C10 as stated: while write_through is set, every chunk has produced a
\* platform call before the next one is processed, nothing is pending when
\* a write returns, and a one-character write produces a record of its own.
\* (Refuted: after a platform call has failed the bytes of the failed flush
\* are still pending; write("") returns and leaves them there, and the next
\* one-character write is delivered with them in one record.)
C10_WriteThroughAsStated ==
    write_through =>
        /\ \A t \in Threads :
              pc[t] = "write_loop" =>
                  /\ call[t].ncb >= call[t].chunks
                  /\ pending_bytes = <<>>
        /\ (last.op = "write" /\ last.outcome = "return") =>
              /\ last.pend1 = <<>>
              /\ last.arg = Str(<< <<97, 1>> >>)
                    => last.recs = << << << <<97>>, 1>> >> >>

\* C10 as amended: while write_through is set, every chunk has produced a
\* platform call before the next one is processed; nothing is pending when
\* a write that processed at least one chunk returns; and when no platform
\* call has failed, a one-character write produces a record of its own.
C10_WriteThrough ==
    write_through =>
        /\ \A t \in Threads :
              (pc[t] = "write_loop" /\ call[t].chunks > 0) =>
                  /\ call[t].ncb >= call[t].chunks
                  /\ pending_bytes = <<>>
        /\ (last.op = "write" /\ last.outcome = "return") =>
              /\ last.ncb >= last.chunks
              /\ last.chunks > 0 => last.pend1 = <<>>
              /\ (~PlatformFailed /\ last.arg = Str(<< <<97, 1>> >>))
                    => last.recs = << << << <<97>>, 1>> >> >>

\* C10's case: with write_through set, two one-character writes have
\* returned and the platform has two records of one character.
C10_Witness ==
    /\ write_through
    /\ AllIdle
    /\ last.op = "write"
    /\ last.arg = Str(<< <<97, 1>> >>)
    /\ log = << [prio |-> prio, tag |-> tag, msg |-> << << <<97>>, 1>> >>],
                [prio |-> prio, tag |-> tag, msg |-> << << <<97>>, 1>> >>] >>

(***************************************************************************)
(* The calls of the text stream run one at a time, each from its first     *)
(* line to its last with nothing in between.  A run is a record: the       *)
(* pending blocks and their count, the payloads delivered, how many        *)
(* platform calls still succeed before one raises (negative: all do), and  *)
(* how the call ended.                                                     *)
(***************************************************************************)
RunStart(pend, cnt, left) ==
    [pend |-> pend, cnt |-> cnt, recs |-> <<>>, left |-> left,
     outcome |-> "return"]

\* flush(), lines 84-88, with BinaryLogStream.write, lines 119-126.
RunFlush(st) ==
    IF st.outcome # "return" THEN st
    ELSE IF Join(st.pend) = <<>> THEN [st EXCEPT !.pend = <<>>, !.cnt = 0]
    ELSE IF st.left = 0 THEN [st EXCEPT !.outcome = "OSError"]
    ELSE [st EXCEPT !.pend = <<>>, !.cnt = 0, !.left = @ - 1,
                    !.recs = Append(@, EscapeNul(Join(st.pend)))]

\* _write_chunk(chunk), lines 70-82.
RunChunk(st, chunk) ==
    IF st.outcome # "return" THEN st
    ELSE IF ~CanEncode(chunk, errors)
    THEN [st EXCEPT !.outcome = "UnicodeEncodeError"]
    ELSE LET blk == encode(chunk, errors)
             s1 == IF st.cnt + BytesLen(blk) > MAX_BYTES_PER_WRITE
                   THEN RunFlush(st) ELSE st
             s2 == [s1 EXCEPT !.pend = Append(@, blk),
                              !.cnt = @ + BytesLen(blk)]
         IN IF s1.outcome # "return" THEN s1
            ELSE IF write_through \/ EndsWithNewline(blk)
                    \/ s2.cnt > MAX_BYTES_PER_WRITE
            THEN RunFlush(s2)
            ELSE s2

\* The while loop of lines 61-64 on one line.
RECURSIVE RunLine(_, _)
RunLine(st, ln) ==
    IF ln = <<>> THEN st
    ELSE RunLine(RunChunk(st, Take(ln, MAX_CHARS_PER_WRITE)),
                 Drop(ln, MAX_CHARS_PER_WRITE))

\* The for loop of line 60.
RECURSIVE RunLines(_, _)
RunLines(st, lns) ==
    IF lns = <<>> THEN st ELSE RunLines(RunLine(st, Head(lns)), Tail(lns))

\* write(txt), lines 59-64.
RunWrite(st, txt) == RunLines(st, splitlines(txt))

\* One call of the sequence `order`, run after the calls before it; ok says
\* that every call so far ended the way it did in the program.
RunCall(r, c) ==
    LET st == [r.st EXCEPT !.outcome = "return",
                           !.left = IF c.outcome = "OSError" THEN c.n ELSE -1]
        en == IF c.op = "flush" THEN RunFlush(st) ELSE RunWrite(st, c.arg.v)
    IN [st |-> en, ok |-> r.ok /\ en.outcome = c.outcome]

\* The calls of a sequence run one after the other on a new stream.  The
\* records of all of them are collected in st.recs.
RECURSIVE RunCalls(_)
RunCalls(calls) ==
    IF calls = <<>> THEN [st |-> RunStart(<<>>, 0, -1), ok |-> TRUE]
    ELSE RunCall(RunCalls(SubSeq(calls, 1, Len(calls) - 1)),
                 calls[Len(calls)])

(***************************************************************************)
(* C11.  "\r\n" is translated into "\n": a write of a text with            *)
(* carriage-return+newline pairs delivers the same records (number,        *)
(* boundaries, payloads) as a write, to the same buffer, of the text with  *)
(* each pair replaced by one newline.  (Refuted: nothing translates the    *)
(* pair; the carriage return is part of the payload.)                      *)
(***************************************************************************)
HasCrLf(txt) ==
    \E i \in 1..(Len(txt) - 1) : txt[i][1] = CR /\ txt[i + 1][1] = LF

\* The text with each "\r\n" replaced by "\n".
RECURSIVE CrLfToLf(_)
CrLfToLf(txt) ==
    IF txt = <<>> THEN <<>>
    ELSE IF txt[1][1] = CR /\ Len(txt) > 1 /\ txt[2][1] = LF
    THEN Cat(IF txt[1][2] > 1 THEN << <<CR, txt[1][2] - 1>> >> ELSE <<>>,
             CrLfToLf(Tail(txt)))
    ELSE Cat(<<txt[1]>>, CrLfToLf(Tail(txt)))

C11_CrLfTranslated ==
    (last.op = "write" /\ last.outcome = "return" /\ HasCrLf(last.arg.v))
        => last.recs = RunWrite(RunStart(last.pend0, last.cnt0, -1),
                                CrLfToLf(last.arg.v)).recs

(***************************************************************************)
(* C12.  BinaryLogStream.write on a non-empty block makes exactly one      *)
(* platform call, at the stream's priority and tag, with the whole block   *)
(* as its payload, every 00 byte replaced by the two bytes C0 80 and every *)
(* other byte unchanged and in order; the payload is as long as the block  *)
(* plus its number of 00 bytes.                                            *)
(***************************************************************************)

\* The number of bytes of a byte sequence that are zero.
RECURSIVE ZerosIn(_)
ZerosIn(u) ==
    IF u = <<>> THEN 0 ELSE (IF u[1] = 0 THEN 1 ELSE 0) + ZerosIn(Tail(u))

\* The number of 00 bytes of a bytes object.
RECURSIVE NulCount(_)
NulCount(blk) ==
    IF blk = <<>> THEN 0
    ELSE ZerosIn(blk[1][1]) * blk[1][2] + NulCount(Tail(blk))

C12_BinaryWrite ==
    /\ \A t \in Threads :
          pc[t] = "log_write" =>
              /\ call[t].ncb = 1
              /\ call[t].recs = <<>>
              /\ barg[t].v = call[t].arg.v
    /\ (last.op = "bwrite" /\ IsBytesLike(last.arg) /\ last.arg.v # <<>>) =>
          /\ last.ncb = 1
          /\ last.outcome \in {"return", "OSError"}
          /\ last.outcome = "OSError" => last.recs = <<>>
          /\ last.outcome = "return" =>
                /\ Len(last.recs) = 1
                /\ NulCount(last.recs[1]) = 0
                /\ UnescapeNul(last.recs[1]) = last.arg.v
                /\ BytesLen(last.recs[1])
                      = BytesLen(last.arg.v) + NulCount(last.arg.v)
                /\ \E i \in 1..Len(log) :
                      log[i] = [prio |-> prio, tag |-> tag,
                                msg |-> last.recs[1]]

\* C12's case: the block b"\x00a" has been written and the platform has
\* the three bytes C0 80 61 as its newest record.
C12_Witness ==
    /\ last.op = "bwrite"
    /\ last.arg = Bytes(<< << <<0>>, 1>>, << <<97>>, 1>> >>)
    /\ last.outcome = "return"
    /\ log # <<>>
    /\ log[Len(log)].msg = << << <<192, 128>>, 1>>, << <<97>>, 1>> >>

(***************************************************************************)
(* C13.  Type errors leave no trace: TextLogStream.write of a value that   *)
(* is not a str (an empty bytes object included) raises TypeError, makes   *)
(* no platform call and leaves _pending_bytes and _pending_bytes_count as  *)
(* they were; BinaryLogStream.write of a value without the buffer protocol *)
(* (an empty str included) raises TypeError and makes no platform call.    *)
(***************************************************************************)

\* No call with an argument of the wrong type gets past the type check,
\* and each has ended with a TypeError and without a platform call.
C13_Rejected ==
    /\ \A t \in Threads :
          /\ call[t].op = "write" => call[t].arg.type = "str"
          /\ call[t].op = "bwrite"
                => call[t].arg.type \in {"bytes", "bytearray"}
    /\ (\/ last.op = "write" /\ last.arg.type # "str"
        \/ last.op = "bwrite" /\ last.arg.type \notin {"bytes", "bytearray"})
       => /\ last.outcome = "TypeError"
          /\ last.ncb = 0
          /\ last.recs = <<>>

\* The step of a call that raises TypeError (the call starts and ends in
\* it) changes neither the buffer nor the log nor the lock.
C13_NoTrace ==
    (ncalls' = ncalls + 1 /\ call' = call /\ last'.outcome = "TypeError")
        => /\ pending_bytes' = pending_bytes
           /\ pending_bytes_count' = pending_bytes_count
           /\ log' = log
           /\ lock' = lock

C13_TypeErrors == []C13_Rejected /\ [][C13_NoTrace]_vars

\* C13's case: write(b"") has raised TypeError while bytes were pending.
C13_Witness ==
    /\ last.op = "write"
    /\ last.arg = Bytes(<<>>)
    /\ last.outcome = "TypeError"
    /\ pending_bytes # <<>>

(***************************************************************************)
(* C14.  The platform callback and the lock.                               *)
(***************************************************************************)

\* The threads inside android_log_write.
InCallback == {t \in Threads : pc[t] \in {"log_write", "flush_log_write"}}

\* C14 as stated: at most one invocation of the platform callback is in
\* progress, and the invoking thread holds the text stream's lock.
\* (Refuted: sys.stdout.buffer is public, and BinaryLogStream.write called
\* on it takes no lock.)
C14_CallbackUnderLockAsStated ==
    /\ Cardinality(InCallback) <= 1
    /\ \A t \in InCallback : lock.owner = t

\* C14 as amended: every invocation of the callback that TextLogStream's
\* flush makes happens while the invoking thread holds the stream's lock,
\* so at most one of them is in progress at a time.
C14_CallbackUnderLock ==
    /\ \A t \in Threads :
          pc[t] = "flush_log_write" => lock.owner = t /\ lock.depth >= 1
    /\ Cardinality({t \in Threads : pc[t] = "flush_log_write"}) <= 1

\* C14's case: one thread is in the callback by way of flush, holding the
\* lock, while the other is in it by way of a direct binary write.
C14_Witness ==
    \E t, u \in Threads :
        /\ pc[t] = "flush_log_write"
        /\ pc[u] = "log_write"
        /\ lock.owner = t

(***************************************************************************)
(* C15.  Concurrent calls on one text stream are serialized: whenever the  *)
(* lock is free, the pending blocks, their count and (when nothing was     *)
(* written to the binary stream directly) the records delivered are those  *)
(* the same calls leave when run one after the other, in the order in      *)
(* which they ended, each ending the way it did (returning, or raising     *)
(* after the same number of platform calls); so the chunks of one write    *)
(* are appended and delivered with nothing of another thread in between,   *)
(* and no byte is lost or duplicated.                                      *)
(***************************************************************************)
C15_Serialized ==
    lock.owner = NoThread =>
        LET r == RunCalls(order)
        IN /\ r.ok
           /\ pending_bytes = r.st.pend
           /\ pending_bytes_count = r.st.cnt
           /\ "binary" \notin seen
                 => [i \in 1..Len(log) |-> log[i].msg] = r.st.recs

\* C15's case: two writes that overlapped in time have both returned; the
\* second one to get the lock was a write of two chunks, and the platform
\* has the byte the first write had left pending and then its first chunk.
C15_Witness ==
    /\ AllIdle
    /\ "concurrent" \in seen
    /\ Len(order) = 2
    /\ order[1].op = "write" /\ order[1].outcome = "return"
    /\ order[2].op = "write" /\ order[2].outcome = "return"
    /\ order[1].arg = Str(<< <<97, 1>> >>)
    /\ order[2].arg = Str(<< <<56448, 1001>> >>)
    /\ Len(log) >= 2

(***************************************************************************)
(* C16.  A failed flush loses nothing that was pending: when the platform  *)
(* call of a flush (called directly or from within write) raises, the      *)
(* exception ends the caller's call, and _pending_bytes and                *)
(* _pending_bytes_count are what they were when the flush began: the       *)
(* pending blocks joined are the block the platform refused, so a later    *)
(* successful flush delivers the same bytes.                               *)
(***************************************************************************)

\* The step in which the platform call of thread t's flush raises.
C16_Fails(t) ==
    /\ pc[t] = "flush_log_write"
    /\ pc'[t] = "idle"
    /\ last'.thread = t
    /\ last'.outcome = "OSError"

C16_FailedFlushStep ==
    \A t \in Threads :
        /\ C16_Fails(t) =>
              /\ pending_bytes' = pending_bytes
              /\ pending_bytes_count' = pending_bytes_count
              /\ Join(pending_bytes') = barg[t].v
              /\ pending_bytes_count' = BytesLen(barg[t].v)
              /\ last'.op \in {"write", "flush"}
              /\ last'.op = "flush" => last'.pend1 = last'.pend0
        \* the exception is not swallowed: a flush whose platform call
        \* raised never goes on to lines 87-88
        /\ (pc[t] = "flush_log_write" /\ ~C16_Fails(t) /\ pc'[t] # pc[t])
              => Len(log') = Len(log) + 1

\* A flush that follows and succeeds delivers exactly the bytes the failed
\* call left pending.
C16_Retry ==
    (last.op = "flush" /\ last.outcome = "return" /\ Join(last.pend0) # <<>>)
        => last.recs = <<EscapeNul(Join(last.pend0))>>

C16_FailedFlush == []C16_Retry /\ [][C16_FailedFlushStep]_vars

\* C16's case: a write's flush has failed and left the chunk pending, and
\* the flush() that followed has delivered it.
C16_Witness ==
    /\ Len(order) = 2
    /\ order[1].op = "write" /\ order[1].outcome = "OSError"
    /\ order[1].arg = Str(<< <<97, 1>>, <<LF, 1>> >>)
    /\ order[2].op = "flush" /\ order[2].outcome = "return"
    /\ log = << [prio |-> prio, tag |-> tag,
                 msg |-> << << <<97>>, 1>>, << <<LF>>, 1>> >>] >>

(***************************************************************************)
(* C17.  A caller's flush() with bytes pending makes exactly one call of   *)
(* BinaryLogStream.write, whose argument is the pending blocks joined in   *)
(* the order they were appended; when it has returned, _pending_bytes is   *)
(* empty and _pending_bytes_count is 0; write_through and the error policy *)
(* are never changed.                                                      *)
(***************************************************************************)
C17_OneCall ==
    /\ \A t \in Threads :
          (pc[t] = "flush_log_write" /\ fret[t] = "call") =>
              /\ call[t].ncb = 1
              /\ call[t].recs = <<>>
              /\ barg[t].v = Join(call[t].pend0)
              /\ pending_bytes = call[t].pend0
    /\ (last.op = "flush" /\ last.pend0 # <<>>) =>
          /\ last.ncb = 1
          /\ last.outcome = "return" =>
                /\ Len(last.recs) = 1
                /\ UnescapeNul(last.recs[1]) = Join(last.pend0)
                /\ last.pend1 = <<>>
                /\ last.cnt1 = 0

C17_ConfigKept == write_through' = write_through /\ errors' = errors

C17_ExplicitFlush == []C17_OneCall /\ [][C17_ConfigKept]_vars

\* C17's case: flush() has returned after delivering three pending blocks
\* as one record.
C17_Witness ==
    /\ last.op = "flush"
    /\ last.outcome = "return"
    /\ Len(last.pend0) = 3
    /\ Len(last.recs) = 1
    /\ pending_bytes = <<>>

(***************************************************************************)
(* C18.  No deadlock and no leaked lock: under fair scheduling every call  *)
(* of every thread ends (it returns or raises); the flush inside write     *)
(* finds the lock held by its own thread and takes it again without        *)
(* waiting; and a thread that is not inside a call does not hold the lock, *)
(* whether its call returned or was ended by an exception.                 *)
(***************************************************************************)
C18_LockState ==
    /\ lock.owner = NoThread <=> lock.depth = 0
    /\ \A t \in Threads :
          /\ pc[t] = "idle" => lock.owner # t
          /\ (pc[t] = "flush_lock" /\ fret[t] \in {"pre", "post"})
                => /\ lock.owner = t
                   /\ lock.depth = 1
                   /\ CanAcquire(t)
          /\ pc[t] = "flush_log_write"
                => lock.depth = (IF fret[t] = "call" THEN 1 ELSE 2)

C18_NoDeadlock ==
    /\ []C18_LockState
    /\ \A t \in Threads : (pc[t] # "idle") ~> (pc[t] = "idle")

\* C18's case: one thread is in the flush inside its write, holding the
\* lock twice, while the other waits for the lock.
C18_Witness ==
    \E t, u \in Threads :
        /\ pc[t] = "flush_log_write"
        /\ fret[t] \in {"pre", "post"}
        /\ lock = [owner |-> t, depth |-> 2]
        /\ pc[u] \in {"write_lock", "flush_lock"}

(***************************************************************************)
(* C19.  The 3000-byte boundary, with write_through off: a chunk of 1000   *)
(* characters of 3 bytes each written to an empty buffer is 3000 bytes and *)
(* makes no platform call; the same chunk written again, with no newline   *)
(* in between, makes the first platform call, while that second chunk is   *)
(* processed: the 3000 pending bytes are delivered before it is appended,  *)
(* because 6000 bytes would exceed MAX_BYTES_PER_WRITE.                    *)
(***************************************************************************)

\* "０" * 1000: full-width digits, 3 bytes each in UTF-8.
FullWidth == << <<65296, 1000>> >>

\* Its encoding, EF BC 90 a thousand times.
FullWidthBytes == << << <<239, 188, 144>>, 1000>> >>

C19_Boundary ==
    ~write_through =>
        /\ \A t \in Threads :
              (call[t].op = "write" /\ call[t].arg = Str(FullWidth)) =>
                  \* the first chunk: no platform call at any point
                  /\ call[t].pend0 = <<>> => call[t].ncb = 0
                  \* the second: the call is made before the chunk is
                  \* appended
                  /\ (call[t].pend0 = <<FullWidthBytes>> /\ pc[t] = "append")
                        => /\ call[t].recs = <<FullWidthBytes>>
                           /\ pending_bytes = <<>>
                           /\ BytesLen(b[t]) = 3000
        /\ (last.op = "write" /\ last.arg = Str(FullWidth)
              /\ last.pend0 = <<>>)
           => /\ last.outcome = "return"
              /\ last.ncb = 0
              /\ last.pend1 = <<FullWidthBytes>>
              /\ last.cnt1 = 3000
        /\ (last.op = "write" /\ last.arg = Str(FullWidth)
              /\ last.pend0 = <<FullWidthBytes>>)
           => /\ last.ncb = 1
              /\ last.outcome = "return"
                    => /\ last.recs = <<FullWidthBytes>>
                       /\ last.pend1 = <<FullWidthBytes>>
                       /\ last.cnt1 = 3000

\* C19's case: the chunk has been written twice; the platform has the
\* first 3000 bytes as its only record and the second 3000 are pending.
C19_Witness ==
    /\ ~write_through
    /\ AllIdle
    /\ last.op = "write"
    /\ last.arg = Str(FullWidth)
    /\ last.outcome = "return"
    /\ log = << [prio |-> prio, tag |-> tag, msg |-> FullWidthBytes] >>
    /\ pending_bytes = <<FullWidthBytes>>

(***************************************************************************)
(* C20.  One line per record at most: whenever no call is in progress the  *)
(* pending bytes hold no complete line (no line terminator), and every     *)
(* record the text stream delivers has at most one line terminator, as its *)
(* last character.  (Refuted: a line that ends with "\r" is neither        *)
(* flushed nor kept apart from the next line, see C7.)                     *)
(***************************************************************************)

\* The encodings of the line terminators of str.splitlines.
BreakUnits == {Utf8(c) : c \in LineBreaks}

\* The number of line terminators in a bytes object; "\r\n" is one.
RECURSIVE NumBreaks(_)
NumBreaks(blk) ==
    IF blk = <<>> THEN 0
    ELSE (IF blk[1][1] \in BreakUnits THEN blk[1][2] ELSE 0)
         - (IF blk[1][1] = <<CR>> /\ Len(blk) > 1 /\ blk[2][1] = <<LF>>
            THEN 1 ELSE 0)
         + NumBreaks(Tail(blk))

\* At most one line: no terminator, or one, at the end.
OneLine(blk) ==
    \/ NumBreaks(blk) = 0
    \/ NumBreaks(blk) = 1 /\ blk[Len(blk)][1] \in BreakUnits

C20_OneLinePerRecord ==
    /\ AllIdle => NumBreaks(Join(pending_bytes)) = 0
    /\ "binary" \notin seen => \A i \in 1..Len(log) : OneLine(log[i].msg)

====
